---- MODULE Spec2Model ----
(***************************************************************************)
(* Model of MindLockWeb/MindLockInstaApp/app.tsx: the App component (the   *)
(* permission effect, the three render branches, the message dispatcher)   *)
(* and the script it injects into the embedded page (the console.log       *)
(* wrapper and the window.goToScreen wrapper).                             *)
(*                                                                         *)
(* A message string is modelled in lexed form, as the sequence of its JSON *)
(* lexemes; JSONParse is a recursive-descent parser over that sequence and *)
(* JSONStringify the serialiser producing it.                              *)
(***************************************************************************)
EXTENDS Integers, Sequences, FiniteSets, TLC

\* ---------------------------------------------------------------- bounds
MaxQueue == 2

\* ------------------------------------------------------- JavaScript values
Undefined == [t |-> "undefined"]
Null      == [t |-> "null"]
Bool(b)   == [t |-> "bool", b |-> b]
Num(n)    == [t |-> "num", n |-> n]
Str(s)    == [t |-> "str", s |-> s]
Arr(xs)   == [t |-> "arr", items |-> xs]
\* members: a sequence of [key, val] pairs in insertion order, keys distinct
Obj(ms)   == [t |-> "obj", members |-> ms]
Member(k, v) == [key |-> k, val |-> v]

\* ------------------------------------------------------------ JSON lexemes
P(c)    == [k |-> "punct", c |-> c]
TStr(s) == [k |-> "str", s |-> s]
TNum(n) == [k |-> "num", n |-> n]
TLit(w) == [k |-> "lit", w |-> w]      \* null, true, false
TBad(w) == [k |-> "bad", w |-> w]      \* text that is no JSON lexeme

IsP(tk, c) == tk.k = "punct" /\ tk.c = c

\* value.toString() as used by string concatenation ('screen_' + n)
JSToString(v) ==
  CASE v.t = "str"       -> v.s
    [] v.t = "num"       -> ToString(v.n)
    [] v.t = "bool"      -> IF v.b THEN "true" ELSE "false"
    [] v.t = "null"      -> "null"
    [] v.t = "undefined" -> "undefined"
    [] OTHER             -> "[object]"

\* the === operator
StrictEquals(a, b) ==
  /\ a.t = b.t
  /\ CASE a.t = "str"  -> a.s = b.s
       [] a.t = "num"  -> a.n = b.n
       [] a.t = "bool" -> a.b = b.b
       [] a.t \in {"null", "undefined"} -> TRUE
       [] OTHER -> FALSE   \* distinct object identities

\* obj[key] = val on a member list: replaces an existing key, else appends
RECURSIVE PutMember(_, _, _)
PutMember(ms, k, v) ==
  IF ms = <<>> THEN << Member(k, v) >>
  ELSE IF Head(ms).key = k THEN << Member(k, v) >> \o Tail(ms)
  ELSE << Head(ms) >> \o PutMember(Tail(ms), k, v)

RECURSIVE LookupMember(_, _)
LookupMember(ms, k) ==
  IF ms = <<>> THEN Undefined
  ELSE IF Head(ms).key = k THEN Head(ms).val
  ELSE LookupMember(Tail(ms), k)

\* ---------------------------------------------------------- JSON.stringify
RECURSIVE JSONStringify(_)
RECURSIVE StringifyMembers(_)
RECURSIVE StringifyItems(_)
StringifyMembers(ms) ==
  IF ms = <<>> THEN <<>>
  ELSE LET rest == StringifyMembers(Tail(ms))
           val  == Head(ms).val
       IN  IF val.t = "undefined" THEN rest   \* undefined members are dropped
           ELSE << TStr(Head(ms).key), P(":") >> \o JSONStringify(val)
                  \o (IF rest = <<>> THEN <<>> ELSE << P(",") >> \o rest)

StringifyItems(xs) ==
  IF xs = <<>> THEN <<>>
  ELSE JSONStringify(IF Head(xs).t = "undefined" THEN Null ELSE Head(xs))
         \o (IF Tail(xs) = <<>> THEN <<>> ELSE << P(",") >> \o StringifyItems(Tail(xs)))

JSONStringify(v) ==
  CASE v.t = "str"  -> << TStr(v.s) >>
    [] v.t = "num"  -> << TNum(v.n) >>
    [] v.t = "bool" -> << TLit(IF v.b THEN "true" ELSE "false") >>
    [] v.t = "null" -> << TLit("null") >>
    [] v.t = "obj"  -> << P("{") >> \o StringifyMembers(v.members) \o << P("}") >>
    [] v.t = "arr"  -> << P("[") >> \o StringifyItems(v.items) \o << P("]") >>
    [] OTHER        -> <<>>

\* -------------------------------------------------------------- JSON.parse
ParseFail == [ok |-> FALSE]
ParseOk(v, next) == [ok |-> TRUE, val |-> v, next |-> next]

RECURSIVE ParseValue(_, _)
RECURSIVE ParseMembers(_, _, _)
RECURSIVE ParseItems(_, _, _)

\* after "{" or ",": expects  "key" : value  then "," or "}"
ParseMembers(toks, i, acc) ==
  IF i + 1 > Len(toks) THEN ParseFail
  ELSE IF toks[i].k # "str" \/ ~IsP(toks[i + 1], ":") THEN ParseFail
  ELSE LET r == ParseValue(toks, i + 2) IN
       IF ~r.ok THEN ParseFail
       ELSE IF r.next > Len(toks) THEN ParseFail
       ELSE LET acc2 == PutMember(acc, toks[i].s, r.val) IN
            IF IsP(toks[r.next], "}") THEN ParseOk(Obj(acc2), r.next + 1)
            ELSE IF IsP(toks[r.next], ",") THEN ParseMembers(toks, r.next + 1, acc2)
            ELSE ParseFail

\* after "[" or ",": expects  value  then "," or "]"
ParseItems(toks, i, acc) ==
  LET r == ParseValue(toks, i) IN
  IF ~r.ok THEN ParseFail
  ELSE IF r.next > Len(toks) THEN ParseFail
  ELSE LET acc2 == Append(acc, r.val) IN
       IF IsP(toks[r.next], "]") THEN ParseOk(Arr(acc2), r.next + 1)
       ELSE IF IsP(toks[r.next], ",") THEN ParseItems(toks, r.next + 1, acc2)
       ELSE ParseFail

ParseValue(toks, i) ==
  IF i > Len(toks) THEN ParseFail
  ELSE LET tk == toks[i] IN
    CASE tk.k = "str" -> ParseOk(Str(tk.s), i + 1)
      [] tk.k = "num" -> ParseOk(Num(tk.n), i + 1)
      [] tk.k = "lit" ->
           ParseOk(IF tk.w = "null" THEN Null ELSE Bool(tk.w = "true"), i + 1)
      [] tk.k = "punct" /\ tk.c = "{" ->
           IF i + 1 <= Len(toks) /\ IsP(toks[i + 1], "}")
           THEN ParseOk(Obj(<<>>), i + 2)
           ELSE ParseMembers(toks, i + 1, <<>>)
      [] tk.k = "punct" /\ tk.c = "[" ->
           IF i + 1 <= Len(toks) /\ IsP(toks[i + 1], "]")
           THEN ParseOk(Arr(<<>>), i + 2)
           ELSE ParseItems(toks, i + 1, <<>>)
      [] OTHER -> ParseFail

\* JSON.parse(message): [ok |-> TRUE, val |-> v], or [ok |-> FALSE] where
\* the call throws SyntaxError
JSONParse(toks) ==
  LET r == ParseValue(toks, 1) IN
  IF r.ok /\ r.next = Len(toks) + 1 THEN [ok |-> TRUE, val |-> r.val]
  ELSE [ok |-> FALSE]

\* data.name: [ok |-> FALSE] where the access throws TypeError (null has no
\* properties); primitives and arrays have no such own property
GetProp(data, name) ==
  IF data.t \in {"null", "undefined"} THEN [ok |-> FALSE]
  ELSE IF data.t = "obj" THEN [ok |-> TRUE, val |-> LookupMember(data.members, name)]
  ELSE [ok |-> TRUE, val |-> Undefined]

\* data.action of a message, Undefined where the parse or the access throws
ActionOf(message) ==
  LET parsed == JSONParse(message) IN
  IF ~parsed.ok THEN Undefined
  ELSE LET action == GetProp(parsed.val, "action") IN
       IF action.ok THEN action.val ELSE Undefined

\* data.button of a message, Undefined where the parse or the access throws
ButtonOf(message) ==
  LET parsed == JSONParse(message) IN
  IF ~parsed.ok THEN Undefined
  ELSE LET button == GetProp(parsed.val, "button") IN
       IF button.ok THEN button.val ELSE Undefined

\* ------------------------------------------------------------------ state
VARIABLES
  hasPermission,  \* useState<boolean | null>(null): "null", "true", "false"
  showCamera,     \* useState(false)
  permPc,         \* the async permission request: "pending", "done", "failed"
  tree,           \* the components mounted by the last render
  cameraRef,      \* cameraRef.current: "null" or "Camera"
  hostLog,        \* console output of the last host callback
  hostCrashed,    \* an exception escaped a host callback
  queue,          \* messages posted by the page, not yet delivered
  page,           \* WebView load: "none", "requested", "allowed", "loading",
                  \*               "loaded", "failed"
  win,            \* the live page context (window), see FreshWindow
  call            \* the running (or last) goToScreen wrapper invocation

hostVars == << hasPermission, showCamera, permPc, tree, cameraRef, hostLog,
              hostCrashed >>
pageVars == << page, win, call >>
vars == << hasPermission, showCamera, permPc, tree, cameraRef, hostLog,
           hostCrashed, queue, page, win, call >>

\* ----------------------------------------------------------------- render
\* Variant: the denial branch does not return, the WebView is rendered too.
RenderDenialFallsThrough(hp, sc) ==
  IF hp = "null" THEN {"loader"}
  ELSE (IF hp = "false" THEN {"errorBox"} ELSE {})
         \cup {"WebView"} \cup (IF sc THEN {"cameraOverlay", "Camera"} ELSE {})

\* Variant: the Camera stays mounted and only the overlay is hidden.
RenderHiddenCamera(hp, sc) ==
  IF hp = "null" THEN {"loader"}
  ELSE IF hp = "false" THEN {"errorBox"}
  ELSE {"WebView", "Camera"} \cup (IF sc THEN {"cameraOverlay"} ELSE {})

\* Variant: the WebView is rendered behind the loader as well.
RenderLoaderWithWebView(hp, sc) ==
  IF hp = "null" THEN {"loader", "WebView"}
  ELSE IF hp = "false" THEN {"errorBox"}
  ELSE {"WebView"} \cup (IF sc THEN {"cameraOverlay", "Camera"} ELSE {})

\* The three-way return of App: the set of components of the returned tree.
Render(hp, sc) ==
  IF hp = "null" THEN {"loader"}
  ELSE IF hp = "false" THEN {"errorBox"}
  ELSE {"WebView"} \cup (IF sc THEN {"cameraOverlay", "Camera"} ELSE {})

\* ref={cameraRef}: set while the Camera is mounted, null otherwise
RefOf(t) == IF "Camera" \in t THEN "Camera" ELSE "null"

\* source={{ uri }}: a WebView that gets mounted requests its page; p is the
\* load state before the render
MountPage(t, p) == IF "WebView" \in t /\ p = "none" THEN "requested" ELSE p

\* onMessage={handleWebViewMessage} is a prop of the WebView element
HandlerAttached == "WebView" \in tree

\* ------------------------------------------------------------- dispatcher
Line(text, arg) == [text |-> text, arg |-> arg]
Raw(message)    == [t |-> "raw", toks |-> message]

\* Variant: BUTTON_CLICKED drives the camera from the button name.
DispatchActionButtonDrives(data, sc) ==
  LET action == GetProp(data, "action") IN
  IF ~action.ok THEN [showCamera |-> sc, log |-> <<>>, threw |-> TRUE]
  ELSE IF StrictEquals(action.val, Str("SHOW_CAMERA"))
    THEN [showCamera |-> TRUE,
          log |-> << Line("Show camera requested", Undefined) >>, threw |-> FALSE]
  ELSE IF StrictEquals(action.val, Str("HIDE_CAMERA"))
    THEN [showCamera |-> FALSE,
          log |-> << Line("Hide camera requested", Undefined) >>, threw |-> FALSE]
  ELSE IF StrictEquals(action.val, Str("BUTTON_CLICKED"))
    THEN [showCamera |-> StrictEquals(GetProp(data, "button").val, Str("screen_5")),
          log |-> << Line("Button clicked:", GetProp(data, "button").val) >>,
          threw |-> FALSE]
  ELSE [showCamera |-> sc, log |-> <<>>, threw |-> FALSE]

\* Variant: BUTTON_CLICKED shares the SHOW_CAMERA branch.
DispatchActionButtonShows(data, sc) ==
  LET action == GetProp(data, "action") IN
  IF ~action.ok THEN [showCamera |-> sc, log |-> <<>>, threw |-> TRUE]
  ELSE IF StrictEquals(action.val, Str("SHOW_CAMERA"))
          \/ StrictEquals(action.val, Str("BUTTON_CLICKED"))
    THEN [showCamera |-> TRUE,
          log |-> << Line("Show camera requested", Undefined) >>, threw |-> FALSE]
  ELSE IF StrictEquals(action.val, Str("HIDE_CAMERA"))
    THEN [showCamera |-> FALSE,
          log |-> << Line("Hide camera requested", Undefined) >>, threw |-> FALSE]
  ELSE [showCamera |-> sc, log |-> <<>>, threw |-> FALSE]

\* Variant: the HIDE_CAMERA test is missing, every other action hides.
DispatchActionDefaultHides(data, sc) ==
  LET action == GetProp(data, "action") IN
  IF ~action.ok THEN [showCamera |-> sc, log |-> <<>>, threw |-> TRUE]
  ELSE IF StrictEquals(action.val, Str("SHOW_CAMERA"))
    THEN [showCamera |-> TRUE,
          log |-> << Line("Show camera requested", Undefined) >>, threw |-> FALSE]
  ELSE IF StrictEquals(action.val, Str("BUTTON_CLICKED"))
    THEN [showCamera |-> sc,
          log |-> << Line("Button clicked:", GetProp(data, "button").val) >>,
          threw |-> FALSE]
  ELSE [showCamera |-> FALSE,
        log |-> << Line("Hide camera requested", Undefined) >>, threw |-> FALSE]

\* Variant: SHOW_CAMERA toggles the flag instead of setting it.
DispatchActionShowToggles(data, sc) ==
  LET action == GetProp(data, "action") IN
  IF ~action.ok THEN [showCamera |-> sc, log |-> <<>>, threw |-> TRUE]
  ELSE IF StrictEquals(action.val, Str("SHOW_CAMERA"))
    THEN [showCamera |-> ~sc,
          log |-> << Line("Show camera requested", Undefined) >>, threw |-> FALSE]
  ELSE IF StrictEquals(action.val, Str("HIDE_CAMERA"))
    THEN [showCamera |-> FALSE,
          log |-> << Line("Hide camera requested", Undefined) >>, threw |-> FALSE]
  ELSE IF StrictEquals(action.val, Str("BUTTON_CLICKED"))
    THEN [showCamera |-> sc,
          log |-> << Line("Button clicked:", GetProp(data, "button").val) >>,
          threw |-> FALSE]
  ELSE [showCamera |-> sc, log |-> <<>>, threw |-> FALSE]

\* The try block of handleWebViewMessage, after a successful JSON.parse.
\* Returns the new showCamera, the lines logged, and whether it threw.
DispatchAction(data, sc) ==
  LET action == GetProp(data, "action") IN
  IF ~action.ok THEN [showCamera |-> sc, log |-> <<>>, threw |-> TRUE]
  ELSE IF StrictEquals(action.val, Str("SHOW_CAMERA"))
    THEN [showCamera |-> TRUE,
          log |-> << Line("Show camera requested", Undefined) >>, threw |-> FALSE]
  ELSE IF StrictEquals(action.val, Str("HIDE_CAMERA"))
    THEN [showCamera |-> FALSE,
          log |-> << Line("Hide camera requested", Undefined) >>, threw |-> FALSE]
  ELSE IF StrictEquals(action.val, Str("BUTTON_CLICKED"))
    THEN [showCamera |-> sc,
          log |-> << Line("Button clicked:", GetProp(data, "button").val) >>,
          threw |-> FALSE]
  ELSE [showCamera |-> sc, log |-> <<>>, threw |-> FALSE]

\* Variant: no try/catch around the parse and the dispatch.
HandleWebViewMessageNoCatch(message, sc) ==
  LET first  == << Line("Message from WebView:", Raw(message)) >>
      parsed == JSONParse(message)
      tried  == IF parsed.ok THEN DispatchAction(parsed.val, sc)
                ELSE [showCamera |-> sc, log |-> <<>>, threw |-> TRUE]
  IN  [showCamera |-> tried.showCamera, log |-> first \o tried.log,
       unhandled |-> tried.threw]

\* Variant: the try/catch encloses JSON.parse only, the dispatch is outside.
HandleWebViewMessageCatchParseOnly(message, sc) ==
  LET first  == << Line("Message from WebView:", Raw(message)) >>
      parsed == JSONParse(message)
  IN  IF ~parsed.ok
      THEN [showCamera |-> sc,
            log |-> first \o << Line("Non-JSON message:", Raw(message)) >>,
            unhandled |-> FALSE]
      ELSE LET tried == DispatchAction(parsed.val, sc) IN
           [showCamera |-> tried.showCamera, log |-> first \o tried.log,
            unhandled |-> tried.threw]

\* handleWebViewMessage(event) with event.nativeEvent.data = message
HandleWebViewMessage(message, sc) ==
  LET first  == << Line("Message from WebView:", Raw(message)) >>
      parsed == JSONParse(message)
      tried  == IF parsed.ok THEN DispatchAction(parsed.val, sc)
                ELSE [showCamera |-> sc, log |-> <<>>, threw |-> TRUE]
  IN  IF tried.threw
      THEN \* catch (e)
           [showCamera |-> sc,
            log |-> first \o tried.log \o << Line("Non-JSON message:", Raw(message)) >>,
            unhandled |-> FALSE]
      ELSE [showCamera |-> tried.showCamera, log |-> first \o tried.log,
            unhandled |-> FALSE]

\* -------------------------------------------------------- injected script
\* args.join(' ') of the console.log wrapper
RECURSIVE JoinArgs(_)
JoinArgs(args) ==
  IF args = <<>> THEN ""
  ELSE IF Len(args) = 1 THEN JSToString(args[1])
  ELSE JSToString(args[1]) \o " " \o JoinArgs(Tail(args))

\* the message the wrapped console.log posts for console.log(...args)
ConsoleLogMessage(args) ==
  JSONStringify(Obj(<< Member("type", Str("CONSOLE_LOG")),
                       Member("message", Str(JoinArgs(args))) >>))

\* the first message of the goToScreen wrapper
ButtonClickedMessage(n) ==
  JSONStringify(Obj(<< Member("action", Str("BUTTON_CLICKED")),
                       Member("button", Str("screen_" \o JSToString(n))) >>))

\* Variant: the two branches are swapped.
CameraMessageSwapped(n) ==
  IF StrictEquals(n, Num(5))
  THEN JSONStringify(Obj(<< Member("action", Str("HIDE_CAMERA")) >>))
  ELSE JSONStringify(Obj(<< Member("action", Str("SHOW_CAMERA")) >>))

\* if (n === 5) post SHOW_CAMERA else post HIDE_CAMERA
CameraMessage(n) ==
  IF StrictEquals(n, Num(5))
  THEN JSONStringify(Obj(<< Member("action", Str("SHOW_CAMERA")) >>))
  ELSE JSONStringify(Obj(<< Member("action", Str("HIDE_CAMERA")) >>))

\* Variant: the typeof guard is missing, the original is always called.
ShouldDelegateUnguarded(originalGoToScreen) == TRUE

\* typeof originalGoToScreen === 'function'
ShouldDelegate(originalGoToScreen) == originalGoToScreen = "function"

\* arguments the page passes to goToScreen
ScreenArgs == << Num(2), Num(5), Str("5") >>

\* strings the page posts directly through window.ReactNativeWebView
PageMessages == <<
  << P("{"), TStr("action"), P(":"), TStr("SHOW_CAMERA"), P("}") >>,
  << P("{"), TStr("action"), P(":"), TStr("HIDE_CAMERA"), P("}") >>,
  << P("{"), TStr("action"), P(":"), TStr("BUTTON_CLICKED"), P(","),
     TStr("button"), P(":"), TStr("screen_5"), P("}") >>,
  << P("{"), TStr("action"), P(":"), TStr("BUTTON_CLICKED"), P(","),
     TStr("button"), P(":"), TStr("screen_2"), P("}") >>,
  << P("{"), TStr("action"), P(":"), TStr("FUTURE_ACTION"), P("}") >>,
  << TBad("hello") >>,
  << TLit("null") >>,
  << TNum(5) >>,
  << TStr("SHOW_CAMERA") >>,
  << P("["), TStr("SHOW_CAMERA"), P("]") >>
>>

\* the page context at the start of a load; nav is what the document itself
\* defines as window.goToScreen ("undefined" or "function")
FreshWindow(nav) ==
  [alive |-> TRUE, goToScreen |-> nav, injected |-> FALSE, domReady |-> FALSE,
   originalGoToScreen |-> "unset", screen |-> Num(1)]

DeadWindow ==
  [alive |-> FALSE, goToScreen |-> "undefined", injected |-> FALSE,
   domReady |-> FALSE, originalGoToScreen |-> "unset", screen |-> Num(1)]

\* pc: "idle", "button", "camera", "delegate", "returned", "threw"
IdleCall == [pc |-> "idle", n |-> Undefined, posts |-> <<>>, delegated |-> <<>>]

CallRunning == call.pc \in {"button", "camera", "delegate"}

\* window.ReactNativeWebView.postMessage(message) inside a wrapper call
PostInCall(message, nextPc) ==
  /\ Len(queue) < MaxQueue
  /\ queue' = Append(queue, message)
  /\ call' = [call EXCEPT !.pc = nextPc, !.posts = Append(@, message)]

\* ------------------------------------------------------------------- Init
Init ==
  /\ hasPermission = "null"
  /\ showCamera = FALSE
  /\ permPc = "pending"
  /\ tree = Render("null", FALSE)
  /\ cameraRef = "null"
  /\ hostLog = <<>>
  /\ hostCrashed = FALSE
  /\ queue = <<>>
  /\ page = MountPage(Render("null", FALSE), "none")
  /\ win = DeadWindow
  /\ call = IdleCall

\* ------------------------------------------------------------ host actions
\* Variant: the effect has no dependency list, the request is issued again
\* after every render and each result is stored.
PermissionResolveEveryRender(status) ==
  /\ permPc \in {"pending", "done"}
  /\ permPc' = "done"
  /\ hasPermission' = IF status = "granted" THEN "true" ELSE "false"
  /\ tree' = Render(hasPermission', showCamera)
  /\ cameraRef' = RefOf(tree')
  /\ page' = IF "WebView" \in tree' /\ page = "none" THEN "requested" ELSE page
  /\ UNCHANGED << showCamera, hostLog, hostCrashed, queue, win, call >>

\* Variant: the continuation also turns the camera on.
PermissionResolveShowsCamera(status) ==
  /\ permPc = "pending"
  /\ permPc' = "done"
  /\ hasPermission' = IF status = "granted" THEN "true" ELSE "false"
  /\ showCamera' = TRUE
  /\ tree' = Render(hasPermission', showCamera')
  /\ cameraRef' = RefOf(tree')
  /\ page' = MountPage(tree', page)
  /\ UNCHANGED << hostLog, hostCrashed, queue, win, call >>

\* const { status } = await ...; setHasPermission(status === 'granted')
PermissionResolve(status) ==
  /\ permPc = "pending"
  /\ permPc' = "done"
  /\ hasPermission' = IF status = "granted" THEN "true" ELSE "false"
  /\ tree' = Render(hasPermission', showCamera)
  /\ cameraRef' = RefOf(tree')
  /\ page' = MountPage(tree', page)
  /\ UNCHANGED << showCamera, hostLog, hostCrashed, queue, win, call >>

\* the awaited request rejects: the async function ends, nothing is set
PermissionReject ==
  /\ permPc = "pending"
  /\ permPc' = "failed"
  /\ UNCHANGED << hasPermission, showCamera, tree, cameraRef, hostLog,
                  hostCrashed, queue, page, win, call >>

\* onMessage: the WebView delivers the oldest posted message
DeliverMessage ==
  /\ HandlerAttached
  /\ ~hostCrashed
  /\ queue # <<>>
  /\ LET r == HandleWebViewMessage(Head(queue), showCamera) IN
       /\ showCamera' = r.showCamera
       /\ hostLog' = r.log
       /\ hostCrashed' = r.unhandled
  /\ queue' = Tail(queue)
  /\ tree' = Render(hasPermission, showCamera')
  /\ cameraRef' = RefOf(tree')
  /\ UNCHANGED << hasPermission, permPc, page, win, call >>

\* onShouldStartLoadWithRequest: logs and returns true
OnShouldStartLoadWithRequest ==
  /\ "WebView" \in tree
  /\ page \in {"requested", "loaded", "failed"}
  /\ ~CallRunning
  /\ hostLog' = << Line("Navigation to:", Str("url")) >>
  /\ page' = "allowed"
  /\ UNCHANGED << hasPermission, showCamera, permPc, tree, cameraRef,
                  hostCrashed, queue, win, call >>

\* onLoadStart; the previous page context is gone and a new document loads
OnLoadStart(nav) ==
  /\ page = "allowed"
  /\ hostLog' = << Line("WebView load start", Undefined) >>
  /\ page' = "loading"
  /\ win' = FreshWindow(nav)
  /\ call' = IdleCall
  /\ UNCHANGED << hasPermission, showCamera, permPc, tree, cameraRef,
                  hostCrashed, queue >>

\* onHttpError: warns with the status code
OnHttpError ==
  /\ page = "loading"
  /\ hostLog' = << Line("HTTP error:", Num(404)) >>
  /\ UNCHANGED << hasPermission, showCamera, permPc, tree, cameraRef,
                  hostCrashed, queue, page, win, call >>

\* onError: warns; the load has failed and no page context remains
OnError ==
  /\ page = "loading"
  /\ ~CallRunning
  /\ hostLog' = << Line("WebView error:", Undefined) >>
  /\ page' = "failed"
  /\ win' = DeadWindow
  /\ call' = IdleCall
  /\ UNCHANGED << hasPermission, showCamera, permPc, tree, cameraRef,
                  hostCrashed, queue >>

\* the load finishes: injectedJavaScript is evaluated in the page (the
\* console.log wrapper and the listeners are installed), onLoadEnd logs
OnLoadEnd ==
  /\ page = "loading"
  /\ hostLog' = << Line("WebView load end", Undefined) >>
  /\ page' = "loaded"
  /\ win' = [win EXCEPT !.injected = TRUE]
  /\ UNCHANGED << hasPermission, showCamera, permPc, tree, cameraRef,
                  hostCrashed, queue, call >>

\* ------------------------------------------------------------ page actions
\* Variant: the listener is registered for an event that fires repeatedly,
\* so it wraps window.goToScreen again each time.
DOMContentLoadedRepeats ==
  /\ win.alive /\ ~CallRunning
  /\ IF win.injected
     THEN /\ Len(queue) < MaxQueue
          /\ queue' = Append(queue,
                 ConsoleLogMessage(<< Str("DOM loaded, fixing touch events") >>))
          /\ win' = [win EXCEPT !.domReady = TRUE,
                                !.originalGoToScreen = win.goToScreen,
                                !.goToScreen = "wrapper"]
     ELSE /\ ~win.domReady
          /\ win' = [win EXCEPT !.domReady = TRUE]
          /\ UNCHANGED queue
  /\ UNCHANGED << hostVars, page, call >>

\* DOMContentLoaded fires once per document; the listener registered by the
\* injected script (if it was registered before the event) logs and wraps
\* window.goToScreen
DOMContentLoaded ==
  /\ win.alive /\ ~win.domReady /\ ~CallRunning
  /\ IF win.injected
     THEN /\ Len(queue) < MaxQueue
          /\ queue' = Append(queue,
                 ConsoleLogMessage(<< Str("DOM loaded, fixing touch events") >>))
          /\ win' = [win EXCEPT !.domReady = TRUE,
                                !.originalGoToScreen = win.goToScreen,
                                !.goToScreen = "wrapper"]
     ELSE /\ win' = [win EXCEPT !.domReady = TRUE]
          /\ UNCHANGED queue
  /\ UNCHANGED << hostVars, page, call >>

\* the page posts a string of its own
PagePostMessage(i) ==
  /\ win.alive /\ ~CallRunning
  /\ Len(queue) < MaxQueue
  /\ queue' = Append(queue, PageMessages[i])
  /\ UNCHANGED << hostVars, pageVars >>

\* the document-level touchstart listener of the injected script
DocumentTouchStart ==
  /\ win.alive /\ win.injected /\ ~CallRunning
  /\ Len(queue) < MaxQueue
  /\ queue' = Append(queue, ConsoleLogMessage(<< Str("Document touch detected") >>))
  /\ UNCHANGED << hostVars, pageVars >>

\* the page calls its own, unwrapped goToScreen(n)
PageGoToScreen(n) ==
  /\ win.alive /\ ~CallRunning
  /\ win.goToScreen = "function"
  /\ win' = [win EXCEPT !.screen = n]
  /\ UNCHANGED << hostVars, queue, page, call >>

\* window.goToScreen(n) enters the wrapper: console.log('Going to screen:', n)
GoToScreenEnter(n) ==
  /\ win.alive /\ ~CallRunning
  /\ win.goToScreen = "wrapper"
  /\ Len(queue) < MaxQueue
  /\ LET m == ConsoleLogMessage(<< Str("Going to screen:"), n >>) IN
       /\ queue' = Append(queue, m)
       /\ call' = [pc |-> "button", n |-> n, posts |-> << m >>, delegated |-> <<>>]
  /\ UNCHANGED << hostVars, page, win >>

\* postMessage({action: 'BUTTON_CLICKED', button: 'screen_' + n})
GoToScreenPostButton ==
  /\ call.pc = "button"
  /\ PostInCall(ButtonClickedMessage(call.n), "camera")
  /\ UNCHANGED << hostVars, page, win >>

\* postMessage({action: 'SHOW_CAMERA'}) or postMessage({action: 'HIDE_CAMERA'})
GoToScreenPostCamera ==
  /\ call.pc = "camera"
  /\ PostInCall(CameraMessage(call.n), "delegate")
  /\ UNCHANGED << hostVars, page, win >>

\* if (typeof originalGoToScreen === 'function') originalGoToScreen(n)
GoToScreenDelegate ==
  /\ call.pc = "delegate"
  /\ IF ShouldDelegate(win.originalGoToScreen)
     THEN IF win.originalGoToScreen = "function"
          THEN /\ win' = [win EXCEPT !.screen = call.n]
               /\ call' = [call EXCEPT !.pc = "returned",
                                       !.delegated = Append(@, call.n)]
          ELSE \* calling a value that is not a function throws TypeError
               /\ call' = [call EXCEPT !.pc = "threw"]
               /\ UNCHANGED win
     ELSE /\ call' = [call EXCEPT !.pc = "returned"]
          /\ UNCHANGED win
  /\ UNCHANGED << hostVars, queue, page >>

\* ------------------------------------------------------------------- Next
Next ==
  \/ \E status \in {"granted", "denied", "undetermined"} : PermissionResolve(status)
  \/ PermissionReject
  \/ DeliverMessage
  \/ OnShouldStartLoadWithRequest
  \/ \E nav \in {"undefined", "function"} : OnLoadStart(nav)
  \/ OnHttpError
  \/ OnError
  \/ OnLoadEnd
  \/ DOMContentLoaded
  \/ \E i \in 1..Len(PageMessages) : PagePostMessage(i)
  \/ DocumentTouchStart
  \/ \E i \in 1..Len(ScreenArgs) : PageGoToScreen(ScreenArgs[i])
  \/ \E i \in 1..Len(ScreenArgs) : GoToScreenEnter(ScreenArgs[i])
  \/ GoToScreenPostButton
  \/ GoToScreenPostCamera
  \/ GoToScreenDelegate

Spec == Init /\ [][Next]_vars

TypeOK ==
  /\ hasPermission \in {"null", "true", "false"}
  /\ showCamera \in BOOLEAN
  /\ permPc \in {"pending", "done", "failed"}
  /\ Len(queue) <= MaxQueue

\* ------------------------------------------------------------ properties
\* this step is the dispatcher handling the oldest message
Delivering == HandlerAttached /\ queue # <<>> /\ queue' = Tail(queue)

LastLine(log) == log[Len(log)]

\* C1: showCamera starts false; a step makes it true only by handling a
\* message that parses as JSON with action "SHOW_CAMERA", and makes it false
\* only by handling one with action "HIDE_CAMERA"; no other step changes it.
C1_CameraVisibleWriters ==
  /\ showCamera = FALSE
  /\ [][ showCamera' # showCamera =>
           /\ Delivering
           /\ JSONParse(Head(queue)).ok
           /\ IF showCamera'
              THEN ActionOf(Head(queue)) = Str("SHOW_CAMERA")
              ELSE ActionOf(Head(queue)) = Str("HIDE_CAMERA") ]_vars

\* a SHOW_CAMERA message has been handled and the camera is shown
C1_Witness ==
  /\ showCamera
  /\ Len(hostLog) = 2
  /\ hostLog[2] = Line("Show camera requested", Undefined)

\* C2: hasPermission starts "null"; its only change is from "null" to "true"
\* or to "false", so it changes at most once and never changes again.
C2_PermissionOnce ==
  /\ hasPermission = "null"
  /\ [][ hasPermission' # hasPermission =>
           hasPermission = "null" /\ hasPermission' \in {"true", "false"} ]_vars

\* the permission was granted and the session went on (a message was handled)
C2_Witness ==
  /\ hasPermission = "true" /\ permPc = "done"
  /\ showCamera /\ page = "loaded"

\* C3: while hasPermission is "false" the denial view is what is rendered,
\* neither the WebView (with its onMessage handler) nor the camera overlay is
\* mounted, no message can be delivered, and no step changes the view.
C3_DeniedShowsDenialView ==
  /\ [](hasPermission = "false" =>
          /\ tree = {"errorBox"}
          /\ ~HandlerAttached
          /\ cameraRef = "null"
          /\ ~ENABLED DeliverMessage)
  /\ [][ hasPermission = "false" => tree' = {"errorBox"} ]_vars

\* the request resolved with a status other than 'granted'
C3_Witness ==
  /\ hasPermission = "false" /\ permPc = "done"
  /\ tree = {"errorBox"} /\ page = "none"

\* C4: handling a message that JSON.parse rejects leaves no exception
\* unhandled, logs 'Non-JSON message:' with the raw string, and changes
\* neither showCamera nor hasPermission.
C4_MalformedIsLoggedOnly ==
  [][ (Delivering /\ ~JSONParse(Head(queue)).ok) =>
        /\ ~hostCrashed'
        /\ hostLog' # <<>>
        /\ LastLine(hostLog') = Line("Non-JSON message:", Raw(Head(queue)))
        /\ showCamera' = showCamera
        /\ hasPermission' = hasPermission ]_vars

\* the string hello was handled while the camera was shown
C4_Witness ==
  /\ showCamera /\ ~hostCrashed
  /\ hostLog = << Line("Message from WebView:", Raw(<< TBad("hello") >>)),
                  Line("Non-JSON message:", Raw(<< TBad("hello") >>)) >>

\* C5 as stated: handling BUTTON_CLICKED with button "screen_5" leaves
\* showCamera true, and with button "screen_2" leaves it false.
C5_ButtonSetsCamera ==
  [][ (Delivering /\ ActionOf(Head(queue)) = Str("BUTTON_CLICKED")) =>
        /\ ButtonOf(Head(queue)) = Str("screen_5") => showCamera' = TRUE
        /\ ButtonOf(Head(queue)) = Str("screen_2") => showCamera' = FALSE ]_vars

\* C5 amended: handling BUTTON_CLICKED, whatever its button, only logs
\* 'Button clicked:' with the button and leaves showCamera as it was.
C5_ButtonOnlyLogs ==
  [][ (Delivering /\ ActionOf(Head(queue)) = Str("BUTTON_CLICKED")) =>
        /\ showCamera' = showCamera
        /\ hostLog' # <<>>
        /\ LastLine(hostLog') = Line("Button clicked:", ButtonOf(Head(queue)))
        /\ ~hostCrashed' ]_vars

\* BUTTON_CLICKED screen_5 was handled and the camera is still hidden
C5_Witness ==
  /\ ~showCamera
  /\ Len(hostLog) = 2
  /\ hostLog[2] = Line("Button clicked:", Str("screen_5"))

\* C6: once the permission request has failed (the async function has ended
\* by rejection), hasPermission is "false" rather than still "null".
C6_RejectionResolvesDenied ==
  permPc = "failed" => hasPermission = "false"

\* C7: handling a message that parses as JSON and whose action is absent or
\* is none of SHOW_CAMERA, HIDE_CAMERA, BUTTON_CLICKED leaves no exception
\* unhandled and changes neither showCamera nor hasPermission.
C7_UnknownActionIgnored ==
  [][ (/\ Delivering
       /\ JSONParse(Head(queue)).ok
       /\ ActionOf(Head(queue)) \notin
            {Str("SHOW_CAMERA"), Str("HIDE_CAMERA"), Str("BUTTON_CLICKED")}) =>
        /\ ~hostCrashed'
        /\ showCamera' = showCamera
        /\ hasPermission' = hasPermission ]_vars

\* {action: "FUTURE_ACTION"} was handled while the camera was shown
C7_Witness ==
  /\ showCamera /\ ~hostCrashed
  /\ hostLog = << Line("Message from WebView:",
                       Raw(<< P("{"), TStr("action"), P(":"),
                              TStr("FUTURE_ACTION"), P("}") >>)) >>

\* the posts of the wrapper invocation that carry an action field
RECURSIVE Commands(_)
Commands(posts) ==
  IF posts = <<>> THEN <<>>
  ELSE IF ActionOf(Head(posts)) = Undefined THEN Commands(Tail(posts))
  ELSE << JSONParse(Head(posts)).val >> \o Commands(Tail(posts))

\* 'screen_<n>' for the screen indexes the page passes
ScreenName(n) ==
  IF n.t = "num" /\ n.n = 2 THEN "screen_2"
  ELSE IF n.t = "num" /\ n.n = 5 THEN "screen_5"
  ELSE IF n.t = "str" /\ n.s = "5" THEN "screen_5"
  ELSE "screen_?"

\* C8: a wrapper invocation goToScreen(n) posts exactly one BUTTON_CLICKED
\* message with button 'screen_<n>', then exactly one camera command, which
\* for a numeric n is SHOW_CAMERA when n is 5 and HIDE_CAMERA otherwise, and
\* calls the original function, with the same n, only after both posts and
\* only when the original is a function.
C8_WrapperPostsThenDelegates ==
  LET cmds == Commands(call.posts)
      button == Obj(<< Member("action", Str("BUTTON_CLICKED")),
                       Member("button", Str(ScreenName(call.n))) >>)
  IN
  /\ call.pc = "button" => cmds = <<>>
  /\ call.pc = "camera" => cmds = << button >>
  /\ call.pc \in {"delegate", "returned"} =>
       /\ Len(cmds) = 2
       /\ cmds[1] = button
       /\ cmds[2].members = << Member("action", cmds[2].members[1].val) >>
       /\ cmds[2].members[1].val \in {Str("SHOW_CAMERA"), Str("HIDE_CAMERA")}
       /\ call.n.t = "num" =>
            (cmds[2].members[1].val = Str("SHOW_CAMERA") <=> call.n.n = 5)
  /\ call.pc # "returned" => call.delegated = <<>>
  /\ call.pc = "returned" =>
       IF win.originalGoToScreen = "function"
       THEN call.delegated = << call.n >> /\ win.screen = call.n
       ELSE call.delegated = <<>>

\* goToScreen(5) went through the wrapper and reached the page's function
C8_Witness ==
  /\ call.pc = "returned" /\ call.n = Num(5)
  /\ call.delegated = << Num(5) >>
  /\ Len(call.posts) = 3

\* C9: when window.goToScreen was undefined at the time the wrapper was
\* installed, an invocation of the wrapper does not throw, still posts the
\* BUTTON_CLICKED message and the camera command, and calls nothing.
C9_NoOriginalNoDelegation ==
  (win.originalGoToScreen = "undefined") =>
     /\ call.pc # "threw"
     /\ call.delegated = <<>>
     /\ win.screen = Num(1)
     /\ call.pc = "returned" =>
          /\ Len(Commands(call.posts)) = 2
          /\ Commands(call.posts)[1].members[1].val = Str("BUTTON_CLICKED")
          /\ Commands(call.posts)[2].members[1].val
               \in {Str("SHOW_CAMERA"), Str("HIDE_CAMERA")}

\* the wrapper returned from goToScreen(5) on a page without the function
C9_Witness ==
  /\ win.originalGoToScreen = "undefined"
  /\ call.pc = "returned" /\ call.n = Num(5)
  /\ Len(call.posts) = 3

\* C10: the Camera (with its overlay and the ref that holds it) is mounted
\* exactly when hasPermission is "true" and showCamera is true; once
\* showCamera is false again no Camera instance is left mounted.
C10_CameraMountedIffVisible ==
  LET visible == hasPermission = "true" /\ showCamera IN
  /\ ("Camera" \in tree) <=> visible
  /\ ("cameraOverlay" \in tree) <=> visible
  /\ (cameraRef = "Camera") <=> visible

\* HIDE_CAMERA was handled after the camera had been requested for screen 5
C10_Witness ==
  /\ hasPermission = "true" /\ ~showCamera
  /\ tree = {"WebView"} /\ cameraRef = "null"
  /\ Len(hostLog) = 2
  /\ hostLog[2] = Line("Hide camera requested", Undefined)
  /\ call.pc = "returned" /\ call.n = Num(2) /\ win.screen = Num(2)

\* C11: showCamera is true only while the live page context believes it is
\* on screen 5, i.e. the last screen it navigated to is 5; this is to hold
\* across message delivery, reloads and navigation away.
C11_CameraOnlyOnScreenFive ==
  showCamera => (win.alive /\ win.screen = Num(5))

\* C12 as stated: the page load does not wait for the permission; while
\* hasPermission is "null" or "false" the load is under way or can start.
C12_LoadNotGated ==
  hasPermission \in {"null", "false"} =>
    (page # "none" \/ ENABLED OnShouldStartLoadWithRequest)

\* C12 amended: the WebView is mounted exactly when hasPermission is "true";
\* while it is "null" or "false" no page load has started, no page context
\* exists and no message is in flight.  After the grant the load may end
\* either way.
C12_LoadGatedByPermission ==
  /\ ("WebView" \in tree) <=> (hasPermission = "true")
  /\ hasPermission \in {"null", "false"} =>
       /\ page = "none"
       /\ ~win.alive
       /\ queue = <<>>
       /\ ~ENABLED OnShouldStartLoadWithRequest

\* after the grant a load was started and ended in an error
C12_Witness ==
  /\ hasPermission = "true" /\ permPc = "done"
  /\ page = "failed"
  /\ hostLog = << Line("WebView error:", Undefined) >>

\* C13: whatever string is delivered, parseable or not, object or not
\* (null, a number, a string, an array), the dispatcher logs it and returns;
\* the host is never left with an unhandled exception, and a payload that is
\* not an object changes nothing.
C13_NoInputCrashesHost ==
  /\ [](~hostCrashed)
  /\ [][ Delivering =>
           /\ ~hostCrashed'
           /\ hostLog' # <<>>
           /\ hostLog'[1] = Line("Message from WebView:", Raw(Head(queue)))
           /\ (JSONParse(Head(queue)).ok /\ JSONParse(Head(queue)).val.t # "obj") =>
                (showCamera' = showCamera /\ tree' = tree) ]_vars

\* the JSON text null was handled while the camera was shown: data.action
\* threw inside the try and the catch logged it
C13_Witness ==
  /\ showCamera /\ ~hostCrashed /\ "Camera" \in tree
  /\ hostLog = << Line("Message from WebView:", Raw(<< TLit("null") >>)),
                  Line("Non-JSON message:", Raw(<< TLit("null") >>)) >>

\* C14: once the permission is granted, the page is loaded (its document is
\* parsed) and the script is injected, every goToScreen(n) call of the page goes through the wrapper:
\* by the time the page's own function runs, the call has posted its three
\* messages, the last being SHOW_CAMERA for n = 5 and HIDE_CAMERA otherwise
\* (in-order delivery then leaves showCamera = (n = 5)).
C14_EveryCallReachesHost ==
  [][ (/\ hasPermission = "true" /\ page = "loaded"
       /\ win.alive /\ win.injected /\ win.domReady
       /\ win'.alive /\ win'.screen # win.screen) =>
        /\ call.pc = "delegate" /\ call'.pc = "returned"
        /\ win'.screen = call.n
        /\ Len(call.posts) = 3
        /\ ActionOf(call.posts[3]) =
             (IF call.n.t = "num" /\ call.n.n = 5
              THEN Str("SHOW_CAMERA") ELSE Str("HIDE_CAMERA")) ]_vars

\* how many of the posted messages carry the given action
RECURSIVE CountAction(_, _)
CountAction(posts, action) ==
  IF posts = <<>> THEN 0
  ELSE (IF ActionOf(Head(posts)) = Str(action) THEN 1 ELSE 0)
         + CountAction(Tail(posts), action)

\* C15: the script is evaluated once per page load, at its end; a new load
\* starts from a context without the script, the wrapper or a captured
\* original; within one context window.goToScreen is wrapped at most once
\* (the captured original is never the wrapper itself and never changes
\* once captured), and one goToScreen call posts at most one BUTTON_CLICKED.
C15_InjectedOncePerLoad ==
  /\ [](/\ win.originalGoToScreen \in {"unset", "undefined", "function"}
        /\ win.goToScreen = "wrapper" => (win.injected /\ win.domReady)
        /\ CountAction(call.posts, "BUTTON_CLICKED") <= 1)
  /\ [][ /\ (page # "loading" /\ page' = "loading") =>
              /\ win'.alive /\ ~win'.injected /\ ~win'.domReady
              /\ win'.goToScreen # "wrapper"
              /\ win'.originalGoToScreen = "unset"
              /\ call' = IdleCall
         /\ (~win.injected /\ win'.injected) =>
              (page = "loading" /\ page' = "loaded")
         /\ (page = "loading" /\ page' = "loaded") =>
              (~win.injected /\ win'.injected)
         /\ (win.goToScreen = "wrapper" /\ win'.goToScreen = "wrapper") =>
              win'.originalGoToScreen = win.originalGoToScreen ]_vars

\* two page loads have each installed the wrapper once: both 'DOM loaded'
\* messages of the two listeners are still in flight, the second context
\* has the wrapper and has not used it yet
C15_Witness ==
  /\ win.goToScreen = "wrapper" /\ win.injected /\ call = IdleCall
  /\ queue = << ConsoleLogMessage(<< Str("DOM loaded, fixing touch events") >>),
                ConsoleLogMessage(<< Str("DOM loaded, fixing touch events") >>) >>

\* C16: the dispatcher is last-writer-wins and idempotent: showCamera starts
\* false and only a handled message moves it; handling SHOW_CAMERA leaves it
\* true and handling HIDE_CAMERA leaves it false whatever it was before, so
\* after any messages handled in delivery order it is true exactly when some
\* SHOW_CAMERA / HIDE_CAMERA message was handled and the last one was
\* SHOW_CAMERA; handling the same command again changes nothing, and no
\* other message (BUTTON_CLICKED, CONSOLE_LOG, unknown, malformed) counts.
C16_LastWriterWins ==
  /\ showCamera = FALSE
  /\ [][ /\ ~Delivering => showCamera' = showCamera
         /\ Delivering =>
              LET action == ActionOf(Head(queue)) IN
              /\ showCamera' = (IF action = Str("SHOW_CAMERA") THEN TRUE
                                ELSE IF action = Str("HIDE_CAMERA") THEN FALSE
                                ELSE showCamera)
              /\ showCamera' = showCamera =>
                   (tree' = tree /\ cameraRef' = cameraRef) ]_vars

\* a SHOW_CAMERA was handled, then a BUTTON_CLICKED for screen_2, and the
\* camera is still shown while a second SHOW_CAMERA waits to be handled
C16_Witness ==
  /\ showCamera /\ "Camera" \in tree
  /\ Len(hostLog) = 2
  /\ hostLog[2] = Line("Button clicked:", Str("screen_2"))
  /\ queue # <<>> /\ ActionOf(Head(queue)) = Str("SHOW_CAMERA")

\* C17: showCamera is true only when hasPermission is "true": a message is
\* handled only while it is "true", handling one never writes hasPermission
\* (nor restarts the request), and the step that sets hasPermission leaves
\* showCamera alone.
C17_CameraImpliesGranted ==
  /\ [](showCamera => hasPermission = "true")
  /\ [][ /\ (queue # <<>> /\ queue' = Tail(queue)) =>
              /\ hasPermission = "true"
              /\ hasPermission' = hasPermission
              /\ permPc' = permPc
         /\ hasPermission' # hasPermission => showCamera' = showCamera ]_vars

\* the permission was granted, then a SHOW_CAMERA mounted the camera
C17_Witness ==
  /\ hasPermission = "true" /\ permPc = "done"
  /\ showCamera /\ cameraRef = "Camera"
  /\ tree = {"WebView", "cameraOverlay", "Camera"}

\* C18: the two commands of one wrapper invocation agree, whatever n the
\* page passes: the camera command is SHOW_CAMERA exactly when the
\* BUTTON_CLICKED message of the same call carries button "screen_5".
C18_CommandsAgree ==
  call.pc \in {"delegate", "returned"} =>
    /\ Len(call.posts) = 3
    /\ ActionOf(call.posts[2]) = Str("BUTTON_CLICKED")
    /\ ActionOf(call.posts[3]) \in {Str("SHOW_CAMERA"), Str("HIDE_CAMERA")}
    /\ (ActionOf(call.posts[3]) = Str("SHOW_CAMERA"))
         <=> (ButtonOf(call.posts[2]) = Str("screen_5"))

====
